---- MODULE Spec2Model ----
(***************************************************************************)
(* Model of setup.py, the packaging script of jobstats.  A run of the      *)
(* script opens README.md in text mode, reads it into long_description,    *)
(* leaves the `with` block (closing the file) and calls setuptools.setup   *)
(* with a fixed declaration plus the text read and the packages found on   *)
(* disk.  The script may be run again on a changed working tree.           *)
(***************************************************************************)
EXTENDS Integers, Sequences, FiniteSets, TLC

\* ---- bounds of the model ------------------------------------------------
MaxLen == 2     \* longest README.md, in bytes
MaxRuns == 2    \* number of times the script is run

\* ---- the environment of a run -------------------------------------------
\* Bytes a README.md is made of: a letter, the two line-end bytes, and a byte
\* that is not valid in the locale's encoding.
Bytes == {"a", "\r", "\n", "0xFF"}

RECURSIVE SeqsUpTo(_)
SeqsUpTo(n) ==
    IF n = 0 THEN {<<>>}
    ELSE LET shorter == SeqsUpTo(n - 1)
         IN shorter \cup {Append(s, b) : s \in {t \in shorter : Len(t) = n - 1}, b \in Bytes}

\* README.md in the working directory: absent, or a file of some bytes.
ReadmeFiles ==
    {[exists |-> FALSE, bytes |-> <<>>]}
        \cup {[exists |-> TRUE, bytes |-> s] : s \in SeqsUpTo(MaxLen)}

\* sys.argv[1:], the setuptools command the script is run with.
Commands == {<<"install">>, <<"sdist">>}

\* What setuptools.find_packages() finds in the working tree: the
\* directories that hold an __init__.py.
PackageTrees == {{}, {"jobstats"}}

\* ---- text-mode reading --------------------------------------------------
\* open("README.md") is text mode: bytes are decoded with the locale's
\* encoding and line ends are translated (universal newlines).
Decodable(bytes) == \A i \in 1..Len(bytes) : bytes[i] # "0xFF"

RECURSIVE UniversalNewlines(_)
UniversalNewlines(s) ==
    IF s = <<>> THEN <<>>
    ELSE IF Head(s) = "\r"
         THEN IF Len(s) > 1 /\ s[2] = "\n"
              THEN <<"\n">> \o UniversalNewlines(SubSeq(s, 3, Len(s)))
              ELSE <<"\n">> \o UniversalNewlines(Tail(s))
         ELSE <<Head(s)>> \o UniversalNewlines(Tail(s))

\* fp.read(1): one character only.
ReadFirstCharOnly(bytes, pos) ==
    LET text == UniversalNewlines(SubSeq(bytes, pos + 1, Len(bytes)))
    IN IF text = <<>> THEN <<>> ELSE <<Head(text)>>

\* fp.read(): the text of the whole file from the current position.
FileRead(bytes, pos) == UniversalNewlines(SubSeq(bytes, pos + 1, Len(bytes)))

\* ---- the declaration passed to setuptools.setup -------------------------
name == "jobstats"
version == "1.2.5"
author == "Chance Nelson"
author_email == "chance-nelson@nau.edu"
description == "view Slurm job resource efficiencies"
long_description_content_type == "text/markdown"
url == "https://github.com/nauhpc/jobstats"
include_package_data == TRUE

\* Variant: group_efficiency left out.
scripts_one_missing == << <<"jobstats", "jobstats">> >>

\* A path is the sequence of its components.
scripts == << <<"jobstats", "jobstats">>, <<"jobstats", "group_efficiency">> >>

\* Variant: the config file installed at the data root.
data_files_at_root == << <<"", << <<"jobstats", "jobstats-config.ini">> >> >> >>

\* Pairs (target directory, files).
data_files == << <<"config", << <<"jobstats", "jobstats-config.ini">> >> >> >>

\* Variant: the operating system declared as OS Independent.
classifiers_os_independent ==
    << <<"Programming Language", "Python", "3", "Only">>,
       <<"License", "OSI Approved", "GNU General Public License v3 (GPLv3)">>,
       <<"Operating System", "OS Independent">>,
       <<"Environment", "Console">>,
       <<"Development Status", "5 - Production/Stable">> >>

\* A trove classifier is the sequence of its " :: "-separated levels.
classifiers ==
    << <<"Programming Language", "Python", "3", "Only">>,
       <<"License", "OSI Approved", "GNU General Public License v3 (GPLv3)">>,
       <<"Operating System", "POSIX", "Linux">>,
       <<"Environment", "Console">>,
       <<"Development Status", "5 - Production/Stable">> >>

\* Variant: description taken from README.md too.
SetupKwargs_descFromReadme(text, pkgs) ==
    [name |-> name,
     version |-> version,
     author |-> author,
     author_email |-> author_email,
     description |-> text,
     long_description |-> text,
     long_description_content_type |-> long_description_content_type,
     url |-> url,
     include_package_data |-> include_package_data,
     packages |-> pkgs,
     scripts |-> scripts,
     data_files |-> data_files,
     classifiers |-> classifiers]

\* The keyword arguments of the setup call, given the text read and the
\* packages find_packages() returned.
SetupKwargs(text, pkgs) ==
    [name |-> name,
     version |-> version,
     author |-> author,
     author_email |-> author_email,
     description |-> description,
     long_description |-> text,
     long_description_content_type |-> long_description_content_type,
     url |-> url,
     include_package_data |-> include_package_data,
     packages |-> pkgs,
     scripts |-> scripts,
     data_files |-> data_files,
     classifiers |-> classifiers]

\* ---- state --------------------------------------------------------------
VARIABLES
    readme,            \* README.md of the working directory
    argv,              \* the command line of the run
    tree,              \* the packages present in the working tree
    pc,                \* position of the run in the module body
    fp,                \* the file object: [state, pos]
    bound,             \* the module globals bound so far
    long_description,  \* value of the global long_description (<<>> if unbound)
    exc,               \* the exception in flight, "none" if none
    setup_calls,       \* the keyword arguments of each setup call of this run
    events,            \* the steps this run has taken, in order
    prev_calls,        \* the setup calls of the last run that reached setup
    run                \* number of the current run

vars == <<readme, argv, tree, pc, fp, bound, long_description, exc,
          setup_calls, events, prev_calls, run>>

NoFile == [state |-> "none", pos |-> 0]

\* A fresh interpreter at the top of the module body.
FreshRun ==
    /\ pc' = "open"
    /\ fp' = NoFile
    /\ bound' = {}
    /\ long_description' = <<>>
    /\ exc' = "none"
    /\ setup_calls' = <<>>
    /\ events' = <<>>

Init ==
    /\ readme \in ReadmeFiles
    /\ argv \in Commands
    /\ tree \in PackageTrees
    /\ pc = "open"
    /\ fp = NoFile
    /\ bound = {}
    /\ long_description = <<>>
    /\ exc = "none"
    /\ setup_calls = <<>>
    /\ events = <<>>
    /\ prev_calls = <<>>
    /\ run = 1

\* ---- the module body, step by step --------------------------------------
\* open("README.md") succeeds and the `with` binds fp.
OpenReadme ==
    /\ pc = "open"
    /\ readme.exists
    /\ fp' = [state |-> "open", pos |-> 0]
    /\ bound' = bound \cup {"fp"}
    /\ events' = Append(events, "open")
    /\ pc' = "read"
    /\ UNCHANGED <<readme, argv, tree, long_description, exc, setup_calls, prev_calls, run>>

\* open("README.md") raises: there is no such file.  Nothing catches it.
OpenFails ==
    /\ pc = "open"
    /\ ~readme.exists
    /\ exc' = "FileNotFoundError"
    /\ pc' = "error"
    /\ UNCHANGED <<readme, argv, tree, fp, bound, long_description, setup_calls, events, prev_calls, run>>

\* Variant: long_description = fp.read(1)
ReadReadme_partial ==
    /\ pc = "read"
    /\ fp.state = "open"
    /\ Decodable(readme.bytes)
    /\ long_description' = ReadFirstCharOnly(readme.bytes, fp.pos)
    /\ bound' = bound \cup {"long_description"}
    /\ fp' = [fp EXCEPT !.pos = Len(readme.bytes)]
    /\ events' = Append(events, "read")
    /\ pc' = "exit"
    /\ UNCHANGED <<readme, argv, tree, exc, setup_calls, prev_calls, run>>

\* long_description = fp.read()
ReadReadme ==
    /\ pc = "read"
    /\ fp.state = "open"
    /\ Decodable(readme.bytes)
    /\ long_description' = FileRead(readme.bytes, fp.pos)
    /\ bound' = bound \cup {"long_description"}
    /\ fp' = [fp EXCEPT !.pos = Len(readme.bytes)]
    /\ events' = Append(events, "read")
    /\ pc' = "exit"
    /\ UNCHANGED <<readme, argv, tree, exc, setup_calls, prev_calls, run>>

\* fp.read() raises: the bytes do not decode, or the device fails.  The
\* assignment does not happen; control goes to the `with` exit.
ReadFails ==
    /\ pc = "read"
    /\ fp.state = "open"
    /\ \/ /\ ~Decodable(readme.bytes)
          /\ exc' = "UnicodeDecodeError"
       \/ exc' = "OSError"
    /\ pc' = "exit"
    /\ UNCHANGED <<readme, argv, tree, fp, bound, long_description, setup_calls, events, prev_calls, run>>

\* Variant: the block is left without closing the file.
ExitWith_leaves_open ==
    /\ pc = "exit"
    /\ events' = Append(events, "close")
    /\ pc' = IF exc = "none" THEN "setup" ELSE "error"
    /\ UNCHANGED <<readme, argv, tree, fp, bound, long_description, exc, setup_calls, prev_calls, run>>

\* Variant: the exit suppresses an exception in flight.
ExitWith_swallows ==
    /\ pc = "exit"
    /\ fp' = [fp EXCEPT !.state = "closed"]
    /\ events' = Append(events, "close")
    /\ pc' = "setup"
    /\ UNCHANGED <<readme, argv, tree, bound, long_description, exc, setup_calls, prev_calls, run>>

\* Leaving the `with` block: fp.__exit__ closes the file and returns None,
\* so an exception in flight keeps propagating.
ExitWith ==
    /\ pc = "exit"
    /\ fp' = [fp EXCEPT !.state = "closed"]
    /\ events' = Append(events, "close")
    /\ pc' = IF exc = "none" THEN "setup" ELSE "error"
    /\ UNCHANGED <<readme, argv, tree, bound, long_description, exc, setup_calls, prev_calls, run>>

\* setuptools.setup(...)
CallSetup ==
    /\ pc = "setup"
    /\ setup_calls' = Append(setup_calls, SetupKwargs(long_description, tree))
    /\ events' = Append(events, "setup")
    /\ pc' = "done"
    /\ UNCHANGED <<readme, argv, tree, fp, bound, long_description, exc, prev_calls, run>>

\* The script is run again, on whatever the working tree and command line
\* are by then.
RunAgain ==
    /\ pc \in {"done", "error"}
    /\ run < MaxRuns
    /\ run' = run + 1
    /\ prev_calls' = IF setup_calls # <<>> THEN setup_calls ELSE prev_calls
    /\ readme' \in ReadmeFiles
    /\ argv' \in Commands
    /\ tree' \in PackageTrees
    /\ FreshRun

Next ==
    \/ OpenReadme
    \/ OpenFails
    \/ ReadReadme
    \/ ReadFails
    \/ ExitWith
    \/ CallSetup
    \/ RunAgain

Spec == Init /\ [][Next]_vars

\* ---- helpers of the properties ------------------------------------------
Basename(path) == path[Len(path)]

Range(seq) == {seq[i] : i \in 1..Len(seq)}

IsPrefix(s, t) == Len(s) <= Len(t) /\ SubSeq(t, 1, Len(s)) = s

Without(kwargs, keys) == [k \in (DOMAIN kwargs) \ keys |-> kwargs[k]]

\* Every setup call made so far in this run.
Calls == Range(setup_calls)

\* Classifier c covers category cat when c is cat or an ancestor of it in
\* the classifier hierarchy.
Covers(c, cat) == IsPrefix(c, cat)

\* Classifier c lies within category cat (is cat or a descendant of it).
Within(c, cat) == IsPrefix(cat, c)

Posix == <<"Operating System", "POSIX">>

Python == <<"Programming Language", "Python">>

StepOrder == <<"open", "read", "close", "setup">>

\* ---- C1 -----------------------------------------------------------------
\* C1: whenever setup has been called, the scripts it was given are exactly
\* jobstats/jobstats and jobstats/group_efficiency: two executables, named
\* jobstats and group_efficiency, none other and neither missing.
C1_ScriptsExactlyTwo ==
    \A k \in Calls :
        /\ Len(k.scripts) = 2
        /\ Range(k.scripts) = {<<"jobstats", "jobstats">>, <<"jobstats", "group_efficiency">>}
        /\ {Basename(p) : p \in Range(k.scripts)} = {"jobstats", "group_efficiency"}

C1_Witness == pc = "done" /\ Len(setup_calls) = 1 /\ argv = <<"install">>

\* ---- C2 -----------------------------------------------------------------
\* C2: whenever setup has been called, the data files it was given are one
\* entry: target directory config, holding the single file
\* jobstats/jobstats-config.ini.
C2_OneConfigFile ==
    \A k \in Calls :
        /\ Len(k.data_files) = 1
        /\ k.data_files[1][1] = "config"
        /\ Len(k.data_files[1][2]) = 1
        /\ k.data_files[1][2][1] = <<"jobstats", "jobstats-config.ini">>
        /\ Basename(k.data_files[1][2][1]) = "jobstats-config.ini"

C2_Witness == pc = "done" /\ Len(setup_calls) = 1 /\ tree = {"jobstats"}

\* ---- C3 -----------------------------------------------------------------
\* C3 as stated: the classifiers given to setup contain the Python-3-only
\* classifier and an operating-system classifier covering POSIX-compatible
\* systems, and none admitting Python 2 or a non-POSIX operating system.
C3_PosixCovered ==
    \A k \in Calls :
        LET cs == Range(k.classifiers) IN
        /\ <<"Programming Language", "Python", "3", "Only">> \in cs
        /\ \E c \in cs : c[1] = "Operating System" /\ Covers(c, Posix)
        /\ \A c \in cs : Within(c, Python) => Within(c, Python \o <<"3">>)
        /\ \A c \in cs : c[1] = "Operating System" => Within(c, Posix)

\* C3 amended: the classifiers given to setup contain the Python-3-only
\* classifier and exactly one operating-system classifier, POSIX :: Linux,
\* which lies within the POSIX family without covering all of it; none
\* admits Python 2 or a non-POSIX operating system.
C3_PosixLinuxOnly ==
    \A k \in Calls :
        LET cs == Range(k.classifiers) IN
        /\ <<"Programming Language", "Python", "3", "Only">> \in cs
        /\ {c \in cs : c[1] = "Operating System"} = {Posix \o <<"Linux">>}
        /\ \A c \in cs : Within(c, Python) => Within(c, Python \o <<"3">>)
        /\ \A c \in cs : c[1] = "Operating System" => Within(c, Posix)

C3_Witness == pc = "done" /\ Len(setup_calls) = 1 /\ Len(setup_calls[1].classifiers) = 5

\* ---- C4 -----------------------------------------------------------------
\* C4: no error is handled.  When opening or reading README.md raises, setup
\* is not called in that run; a run that stopped in error has declared
\* nothing, and a call that was made carries the whole declaration.
C4_ErrorMeansNoSetup ==
    /\ exc # "none" => setup_calls = <<>>
    /\ pc = "error" => exc # "none" /\ setup_calls = <<>>
    /\ pc = "done" => exc = "none" /\ Len(setup_calls) = 1
    /\ \A k \in Calls :
        /\ "long_description" \in bound
        /\ k = SetupKwargs(long_description, tree)
        /\ DOMAIN k = {"name", "version", "author", "author_email", "description",
                       "long_description", "long_description_content_type", "url",
                       "include_package_data", "packages", "scripts", "data_files",
                       "classifiers"}

C4_Witness ==
    /\ pc = "error"
    /\ exc \in {"UnicodeDecodeError", "OSError"}
    /\ fp.state = "closed"
    /\ setup_calls = <<>>

\* ---- C5 -----------------------------------------------------------------
\* C5: the steps of a run happen in the order open, read, close, setup (a
\* failing read goes from open straight to close); setup is called at most
\* once, only after the whole file was read, and its long_description is the
\* text read from the whole of README.md.
C5_OrderAndFullText ==
    /\ IsPrefix(events, StepOrder) \/ events = <<"open", "close">>
    /\ Len(setup_calls) <= 1
    /\ \A k \in Calls :
        /\ events = StepOrder
        /\ fp.pos = Len(readme.bytes)
        /\ k.long_description = long_description
        /\ k.long_description = FileRead(readme.bytes, 0)

\* A README.md with a CR LF line end was read and passed on.
C5_Witness ==
    /\ pc = "done"
    /\ Len(setup_calls) = 1
    /\ Len(readme.bytes) > Len(setup_calls[1].long_description)
    /\ Len(setup_calls[1].long_description) >= 1

\* ---- C6 -----------------------------------------------------------------
\* C6: the file is closed on every way out of the `with` block, so it is
\* closed whenever setup has been called.
C6_ClosedAtSetup ==
    /\ setup_calls # <<>> => fp.state = "closed"
    /\ pc \in {"setup", "done"} => fp.state = "closed"
    /\ pc = "error" /\ "fp" \in bound => fp.state = "closed"

C6_Witness == setup_calls # <<>> /\ fp.state = "closed" /\ fp.pos > 0

\* ---- C7 -----------------------------------------------------------------
\* C7 as stated: between two runs, every argument given to setup other than
\* long_description is the same.
C7_AllButLongDescription ==
    \A k \in Calls : \A p \in Range(prev_calls) :
        Without(k, {"long_description"}) = Without(p, {"long_description"})

\* C7 amended: between two runs, every argument given to setup other than
\* long_description and packages is the same; packages is what
\* find_packages() finds in the working tree, and the text of README.md
\* shows up in long_description only.
C7_AllButLongDescriptionAndPackages ==
    \A k \in Calls :
        /\ k.packages = tree
        /\ \A p \in Range(prev_calls) :
            Without(k, {"long_description", "packages"})
                = Without(p, {"long_description", "packages"})

C7_Witness ==
    /\ pc = "done"
    /\ setup_calls # <<>>
    /\ prev_calls # <<>>
    /\ setup_calls[1].long_description # prev_calls[1].long_description

====
